---- MODULE Spec2Model ----
(***************************************************************************)
(* Model of command/oauth/cmd.go: the OAuth authorization-flow engine.     *)
(*                                                                         *)
(*   Spec     the loopback flow: DoLoopbackAuthorization running against   *)
(*            the callback server's request goroutines (ServeHTTP), which  *)
(*            hand their result over two unbuffered channels.              *)
(*   FairSpec Spec with the fairness the Go scheduler gives the goroutines *)
(*            that are able to run.                                        *)
(*   SpecCmd  oauthCmd: option validation, strategy selection, the four    *)
(*            strategies and the printing of the token.                    *)
(***************************************************************************)
EXTENDS Integers, Sequences, FiniteSets, Bags, TLC

VARIABLES
    o,          \* the oauth session object (struct oauth)
    srv,        \* the httptest.Server made by NewServer
    opc,        \* position of the goroutine running DoLoopbackAuthorization
    ret,        \* what DoLoopbackAuthorization returns: (tok, err)
    authURL,    \* the query of the URL built by Auth
    browser,    \* what exec.OpenInBrowser did: "not called", "opened", "failed"
    handlers,   \* bag of the callback requests served so far (one goroutine each)
    cmd         \* one run of oauthCmd (used by SpecCmd only)

vars == <<o, srv, opc, ret, authURL, browser, handlers, cmd>>

(***************************************************************************)
(* Bounds.                                                                 *)
(***************************************************************************)
\* Number of callback requests the browser side sends during one flow.
MaxRequests == 2

(***************************************************************************)
(* Values.                                                                 *)
(***************************************************************************)
\* randutil.Alphanumeric(32): the session's state, an opaque value.
SessionState == "S"
\* randutil.Alphanumeric(64): the PKCE verifier.
SessionVerifier == "V"
\* randutil.Hex(64)
SessionNonce == "N"

oobCallbackUrn == "urn:ietf:wg:oauth:2.0:oob"

\* A nil *token.
NoTok == [nil |-> TRUE]

\* struct token, as decoded from the token endpoint's JSON answer.
Token(at, err, desc) ==
    [AccessToken |-> at, IDToken |-> "", RefreshToken |-> "", ExpiresIn |-> 0,
     TokenType |-> IF at = "" THEN "" ELSE "Bearer", Err |-> err, ErrDesc |-> desc]

\* The JSON documents the token endpoint may answer with.
TokenResponses ==
    { Token(at, err, desc) : at \in {"", "AT1"},
                             err \in {"", "access_denied"},
                             desc \in {"", "denied by user"} }

\* What a call of Exchange can come back with: (tok, err).
ExchangeOutcomes ==
    { [tok |-> NoTok, err |-> e] : e \in {"transport error", "decode error"} }
    \cup { [tok |-> t, err |-> ""] : t \in TokenResponses }

\* url.Parse fails on these.
BadURLs == { "https://idp.example/%zz" }

UrlParseFails(u) == u \in BadURLs

TimeoutError == "oauth command timed out, please try again"

(***************************************************************************)
(* Callback requests: the path and the query parameters ServeHTTP and      *)
(* implicitHandler read.  expires_in is kept as its sequence of characters.*)
(***************************************************************************)
AllRequests ==
    [ path : {"/", "/cb"},
      error : {"", "access_denied"},
      code : {"", "c1"},
      state : {"", SessionState, "X"},
      urlhash : {"", "true"},
      access_token : {"", "AT1"},
      id_token : {""}, refresh_token : {""}, token_type : {""},
      expires_in : {<<>>} ]

\* The promoted fragments of the implicit flow, every parameter varied.
FragmentRequests ==
    [ path : {"/", "/cb"},
      error : {"", "access_denied"},
      code : {""},
      state : {"", SessionState, "X"},
      urlhash : {"", "false", "true"},
      access_token : {"", "AT1"},
      id_token : {"", "ID1"}, refresh_token : {"", "RT1"},
      token_type : {"", "Bearer"},
      expires_in : { <<>>, <<"3", "6", "0", "0">>, <<"3", "6", "x">>, <<"-", "5">>,
                     <<"9", "9", "9", "9", "9", "9", "9", "9", "9", "9", "9">> } ]

\* The requests sent to a session: those of the authorization-code flow carry
\* no fragment parameters (only implicitHandler reads them), those of the
\* implicit flow carry no code (only the code branch of ServeHTTP reads it).
Requests(implicit) ==
    { r \in AllRequests :
        IF implicit THEN r.code = ""
                    ELSE r.urlhash = "" /\ r.access_token = "" }

(***************************************************************************)
(* The request goroutines.  A handler record is one call of ServeHTTP: the *)
(* request it serves, where it stands, and what it has done so far.        *)
(*   pc       "exchange" inside o.Exchange (the HTTP POST is in flight)     *)
(*            "sendTok"  blocked in  o.tokCh <- tok                         *)
(*            "sendErr"  blocked in  o.errCh <- errors.New(msg)             *)
(*            "done"     ServeHTTP has returned                             *)
(*   status   the HTTP status written to the ResponseWriter (0: none yet)  *)
(*   log      the calls made, in order                                     *)
(*   form     the form posted by Exchange                                  *)
(*   out      what Exchange returned                                       *)
(*   tok,msg  the value being sent on tokCh, errCh                         *)
(*   received whether the orchestrator's select took the value sent        *)
(***************************************************************************)
NoForm == [none |-> TRUE]
NoOutcome == [none |-> TRUE]

NewHandler(r) ==
    [req |-> r, pc |-> "serving", status |-> 0, log |-> <<>>, form |-> NoForm,
     out |-> NoOutcome, tok |-> NoTok, msg |-> "", received |-> FALSE]

\* http.NotFound(w, req); return
NotFound(h) ==
    [h EXCEPT !.status = 404, !.log = @ \o <<"WriteHeader 404">>, !.pc = "done"]

\* http.Error(w, "400 bad request", http.StatusBadRequest); return
HttpError400(h) ==
    [h EXCEPT !.status = 400, !.log = @ \o <<"WriteHeader 400">>, !.pc = "done"]

\* Variant: the error is sent before the failure page is written.
badRequest_PageAfterSend(h, msg) ==
    [h EXCEPT !.status = 400, !.log = @ \o <<"errCh <-", "WriteHeader 400">>,
              !.msg = msg, !.pc = "sendErr"]

\* o.badRequest(w, msg): the failure page, then the send on errCh.
badRequest(h, msg) ==
    [h EXCEPT !.status = 400, !.log = @ \o <<"WriteHeader 400", "errCh <-">>,
              !.msg = msg, !.pc = "sendErr"]

\* o.success(w)
success(h) ==
    [h EXCEPT !.status = 200, !.log = @ \o <<"WriteHeader 200">>]

\* http.Redirect(w, req, o.terminalRedirect, 302)
Redirect(h) ==
    [h EXCEPT !.status = 302, !.log = @ \o <<"WriteHeader 302">>]

\* if o.terminalRedirect != "" { http.Redirect(...) } else { o.success(w) }
RespondSuccess(h) ==
    IF o.terminalRedirect # "" THEN Redirect(h) ELSE success(h)

\* o.tokCh <- tok
SendTok(h, tok) ==
    [h EXCEPT !.tok = tok, !.log = @ \o <<"tokCh <-">>, !.pc = "sendTok"]

\* Variant: the error parameter is looked at in the code flow only.
HasProviderError_CodeFlowOnly(errStr) == errStr # "" /\ ~o.implicit

\* errStr != ""
HasProviderError(errStr) == errStr # ""

\* Variant: && for ||.
MissingCodeOrState_Both(code, state) == code = "" /\ state = ""

\* code == "" || state == ""
MissingCodeOrState(code, state) == code = "" \/ state = ""

\* Variant: the comparison with o.state left out.
InvalidState_EmptyOnly(state) == state = ""

\* state == "" || state != o.state
InvalidState(state) == state = "" \/ state # o.state

\* Variant: error_description not looked at.
TokenHasError_ErrOnly(tok) == tok.Err # ""

\* tok.Err != "" || tok.ErrDesc != ""
TokenHasError(tok) == tok.Err # "" \/ tok.ErrDesc # ""

\* Variant: the server's own URL is sent, whatever --listen-url says.
ExchangeForm_ServerURL(code) ==
    [code |-> code, client_id |-> o.clientID, client_secret |-> o.clientSecret,
     redirect_uri |-> srv.URL, grant_type |-> "authorization_code",
     code_verifier |-> o.codeChallenge]

\* Exchange, up to the POST: the form it sends to the token endpoint.
ExchangeForm(code) ==
    [code |-> code, client_id |-> o.clientID, client_secret |-> o.clientSecret,
     redirect_uri |-> o.redirectURI, grant_type |-> "authorization_code",
     code_verifier |-> o.codeChallenge]

CallExchange(h, code) ==
    [h EXCEPT !.form = ExchangeForm(code), !.log = @ \o <<"Exchange">>,
              !.pc = "exchange"]

\* Variant: any urlhash value marks the promoted fragment.
IsPromoted_NonEmpty(hash) == hash # ""

\* hash := q.Get("urlhash"); hash == "true"
IsPromoted(hash) == hash = "true"

\* The largest int.  Go's int has the width of the platform; the model takes
\* the 32-bit build (on a 64-bit build the same happens at 2^63 - 1).
MaxInt == 2147483647

IsDigit(c) == c \in {"0", "1", "2", "3", "4", "5", "6", "7", "8", "9"}

DigitVal(c) ==
    CASE c = "0" -> 0 [] c = "1" -> 1 [] c = "2" -> 2 [] c = "3" -> 3 [] c = "4" -> 4
      [] c = "5" -> 5 [] c = "6" -> 6 [] c = "7" -> 7 [] c = "8" -> 8 [] c = "9" -> 9

\* The digits of s from position i on, added to the magnitude n: the first
\* character that is no digit is a syntax error, the first digit that takes
\* the magnitude out of range a range error.
RECURSIVE ParseDigits(_, _, _)
ParseDigits(s, i, n) ==
    IF i > Len(s) THEN [n |-> n, err |-> ""]
    ELSE IF ~IsDigit(s[i]) THEN [n |-> 0, err |-> "invalid syntax"]
    ELSE IF n > (MaxInt - DigitVal(s[i])) \div 10
    THEN [n |-> MaxInt, err |-> "value out of range"]
    ELSE ParseDigits(s, i + 1, n * 10 + DigitVal(s[i]))

\* strconv.Atoi: (0, syntax error) for a string that is no decimal number,
\* (the nearest int, range error) for a number out of int's range.
Atoi(s) ==
    LET neg == Len(s) > 0 /\ s[1] = "-"
        signed == Len(s) > 0 /\ s[1] \in {"-", "+"}
        p == ParseDigits(s, IF signed THEN 2 ELSE 1, 0)
    IN IF Len(s) = 0 \/ (signed /\ Len(s) = 1) THEN [n |-> 0, err |-> "invalid syntax"]
       ELSE IF p.err = "value out of range"
       THEN [n |-> IF neg THEN 0 - MaxInt - 1 ELSE MaxInt, err |-> p.err]
       ELSE IF p.err # "" THEN [n |-> 0, err |-> p.err]
       ELSE [n |-> IF neg THEN 0 - p.n ELSE p.n, err |-> ""]

implicitHandler(h) ==
    LET q == h.req IN
    IF IsPromoted(q.urlhash)
    THEN IF InvalidState(q.state)
         THEN badRequest(h, "Failed to authenticate: missing or invalid state")
         ELSE IF q.access_token = ""
         THEN badRequest(h, "Failed to authenticate: missing access token")
         ELSE SendTok(RespondSuccess(h),
                      [AccessToken |-> q.access_token, IDToken |-> q.id_token,
                       RefreshToken |-> q.refresh_token,
                       ExpiresIn |-> Atoi(q.expires_in).n,
                       TokenType |-> q.token_type, Err |-> "", ErrDesc |-> ""])
    ELSE [h EXCEPT !.status = 200, !.log = @ \o <<"WriteHeader 200">>,
                   !.pc = "done"]

\* Variant: the root path is served whatever the callback path.
WrongPath_RootAllowed(path) == path # o.CallbackPath /\ path # "/"

\* req.URL.Path != o.CallbackPath
WrongPath(path) == path # o.CallbackPath

\* ServeHTTP from its entry to the first point where it blocks or returns.
ServeHTTP(r) ==
    LET h == NewHandler(r) IN
    IF WrongPath(r.path)
    THEN NotFound(h)
    ELSE IF HasProviderError(r.error)
    THEN badRequest(h, "Failed to authenticate: " \o r.error)
    ELSE IF o.implicit
    THEN implicitHandler(h)
    ELSE IF MissingCodeOrState(r.code, r.state)
    THEN HttpError400(h)
    ELSE IF r.code = ""
    THEN badRequest(h, "Failed to authenticate: missing or invalid code")
    ELSE IF InvalidState(r.state)
    THEN badRequest(h, "Failed to authenticate: missing or invalid state")
    ELSE CallExchange(h, r.code)

\* ServeHTTP from the return of Exchange to the next point where it blocks.
AfterExchange(h, out) ==
    LET g == [h EXCEPT !.out = out] IN
    IF out.err # ""
    THEN badRequest(g, "Failed exchanging authorization code: " \o out.err)
    ELSE IF TokenHasError(out.tok)
    THEN badRequest(g, "Failed exchanging authorization code: "
                         \o out.tok.Err \o ". " \o out.tok.ErrDesc)
    ELSE SendTok(RespondSuccess(g), out.tok)

\* The channel send completed: ServeHTTP returns.
Received(h) == [h EXCEPT !.received = TRUE, !.pc = "done"]

Replace(bag, old, new) == (bag (-) SetToBag({old})) (+) SetToBag({new})

Live == BagToSet(handlers)

(***************************************************************************)
(* The session after newOauth.                                             *)
(***************************************************************************)
\* --listen / --listen-url, and the callback path options.Validate takes
\* from the listen-url.
ListenOptions ==
    { [CallbackListener |-> "", CallbackListenerURL |-> "", CallbackPath |-> "/"],
      [CallbackListener |-> ":10000",
       CallbackListenerURL |-> "http://localhost:10000/cb", CallbackPath |-> "/cb"] }

newOauth(implicit, terminalRedirect, authzEp, l) ==
    [provider |-> "", clientID |-> "client", clientSecret |-> "secret",
     scope |-> "openid email", prompt |-> "", loginHint |-> "",
     redirectURI |-> "", tokenEndpoint |-> "https://idp.example/token",
     authzEndpoint |-> authzEp, state |-> SessionState,
     codeChallenge |-> SessionVerifier, nonce |-> SessionNonce,
     implicit |-> implicit, CallbackListener |-> l.CallbackListener,
     CallbackListenerURL |-> l.CallbackListenerURL,
     CallbackPath |-> l.CallbackPath, terminalRedirect |-> terminalRedirect]

NoURL == [none |-> TRUE]
NoRet == [tok |-> NoTok, err |-> ""]
NoCmd == [pc |-> "unused"]

Init ==
    /\ \E implicit \in BOOLEAN, t \in {"", "https://app.example/done"},
          a \in {"https://idp.example/authorize"} \cup BadURLs, l \in ListenOptions :
          o = newOauth(implicit, t, a, l)
    /\ srv = [listener |-> "none", URL |-> ""]
    /\ opc = "start"
    /\ ret = NoRet
    /\ authURL = NoURL
    /\ browser = "not called"
    /\ handlers = EmptyBag
    /\ cmd = NoCmd

(***************************************************************************)
(* DoLoopbackAuthorization.                                                *)
(***************************************************************************)
\* Variant: NewServer stores the address it listens on in the session.
NewServer_StoresAddress ==
    /\ opc = "start"
    /\ \/ /\ srv' = [listener |-> "open",
                     URL |-> IF o.CallbackListener = "" THEN "http://127.0.0.1:49152"
                             ELSE "http://127.0.0.1:10000"]
          /\ o' = [o EXCEPT !.CallbackListener =
                      IF @ = "" THEN "127.0.0.1:49152" ELSE "127.0.0.1:10000"]
          /\ opc' = "srvUp"
          /\ ret' = ret
       \/ /\ o.CallbackListener # ""
          /\ srv' = srv /\ o' = o
          /\ opc' = "returned"
          /\ ret' = [tok |-> NoTok, err |-> "error listening on " \o o.CallbackListener]
    /\ UNCHANGED <<authURL, browser, handlers, cmd>>

\* srv, err := o.NewServer(); if err != nil { return nil, err }
\* httptest.NewServer cannot fail; net.Listen on --listen can.
NewServer ==
    /\ opc = "start"
    /\ \/ /\ srv' = [listener |-> "open",
                     URL |-> IF o.CallbackListener = "" THEN "http://127.0.0.1:49152"
                             ELSE "http://127.0.0.1:10000"]
          /\ opc' = "srvUp"
          /\ ret' = ret
       \/ /\ o.CallbackListener # ""
          /\ srv' = srv
          /\ opc' = "returned"
          /\ ret' = [tok |-> NoTok, err |-> "error listening on " \o o.CallbackListener]
    /\ UNCHANGED <<o, authURL, browser, handlers, cmd>>

\* sha256.Sum256 and base64.RawURLEncoding.EncodeToString: one-to-one on the
\* values of this model, and never the value they are given.
Sha256(x) == "sha256(" \o x \o ")"

Base64RawURL(x) == "base64url(" \o x \o ")"

\* Variant: the verifier itself is sent as the challenge.
Auth_PlainChallenge(s) ==
    [client_id |-> s.clientID, redirect_uri |-> s.redirectURI,
     response_type |-> IF s.implicit THEN "id_token token" ELSE "code",
     code_challenge_method |-> IF s.implicit THEN "" ELSE "S256",
     code_challenge |-> IF s.implicit THEN "" ELSE s.codeChallenge,
     scope |-> s.scope, state |-> s.state, nonce |-> s.nonce]

\* Auth: the authorization URL's query ("" for a parameter not added).
Auth(s) ==
    [client_id |-> s.clientID, redirect_uri |-> s.redirectURI,
     response_type |-> IF s.implicit THEN "id_token token" ELSE "code",
     code_challenge_method |-> IF s.implicit THEN "" ELSE "S256",
     code_challenge |-> IF s.implicit THEN "" ELSE Base64RawURL(Sha256(s.codeChallenge)),
     scope |-> s.scope, state |-> s.state, nonce |-> s.nonce]

\* Variant: defer srv.Close() placed after the call of Auth, so that the
\* return on Auth's error runs no Close.
Authorize_DeferAfterAuth ==
    /\ opc = "srvUp"
    /\ o' = [o EXCEPT !.redirectURI =
                IF o.CallbackListenerURL # "" THEN o.CallbackListenerURL ELSE srv.URL]
    /\ IF UrlParseFails(o.authzEndpoint)
       THEN /\ ret' = [tok |-> NoTok, err |-> "parse " \o o.authzEndpoint]
            /\ opc' = "returned"
            /\ authURL' = authURL /\ browser' = browser
       ELSE /\ authURL' = Auth(o')
            /\ \E b \in {"opened", "failed"} : browser' = b
            /\ opc' = "select"
            /\ ret' = ret
    /\ UNCHANGED <<srv, handlers, cmd>>

\* Variant: the error of exec.OpenInBrowser is returned.
Authorize_BrowserErrorReturned ==
    /\ opc = "srvUp"
    /\ o' = [o EXCEPT !.redirectURI =
                IF o.CallbackListenerURL # "" THEN o.CallbackListenerURL ELSE srv.URL]
    /\ IF UrlParseFails(o.authzEndpoint)
       THEN /\ ret' = [tok |-> NoTok, err |-> "parse " \o o.authzEndpoint]
            /\ opc' = "closing"
            /\ authURL' = authURL /\ browser' = browser
       ELSE /\ authURL' = Auth(o')
            /\ \/ browser' = "opened" /\ opc' = "select" /\ ret' = ret
               \/ /\ browser' = "failed" /\ opc' = "closing"
                  /\ ret' = [tok |-> NoTok, err |-> "cannot open a web browser"]
    /\ UNCHANGED <<srv, handlers, cmd>>

\* The redirect URI, defer srv.Close(), Auth and exec.OpenInBrowser, whose
\* failure is only reported on stderr.
Authorize ==
    /\ opc = "srvUp"
    /\ o' = [o EXCEPT !.redirectURI =
                IF o.CallbackListenerURL # "" THEN o.CallbackListenerURL ELSE srv.URL]
    /\ IF UrlParseFails(o.authzEndpoint)
       THEN /\ ret' = [tok |-> NoTok, err |-> "parse " \o o.authzEndpoint]
            /\ opc' = "closing"
            /\ authURL' = authURL /\ browser' = browser
       ELSE /\ authURL' = Auth(o')
            /\ \E b \in {"opened", "failed"} : browser' = b
            /\ opc' = "select"
            /\ ret' = ret
    /\ UNCHANGED <<srv, handlers, cmd>>

\* case tok := <-o.tokCh: return tok, nil
RecvTok ==
    /\ opc = "select"
    /\ \E h \in Live :
          /\ h.pc = "sendTok"
          /\ ret' = [tok |-> h.tok, err |-> ""]
          /\ handlers' = Replace(handlers, h, Received(h))
    /\ opc' = "closing"
    /\ UNCHANGED <<o, srv, authURL, browser, cmd>>

\* case err := <-o.errCh: return nil, err
RecvErr ==
    /\ opc = "select"
    /\ \E h \in Live :
          /\ h.pc = "sendErr"
          /\ ret' = [tok |-> NoTok, err |-> h.msg]
          /\ handlers' = Replace(handlers, h, Received(h))
    /\ opc' = "closing"
    /\ UNCHANGED <<o, srv, authURL, browser, cmd>>

\* case <-time.After(2 * time.Minute): return nil, errors.New(...)
Timeout ==
    /\ opc = "select"
    /\ ret' = [tok |-> NoTok, err |-> TimeoutError]
    /\ opc' = "closing"
    /\ UNCHANGED <<o, srv, authURL, browser, handlers, cmd>>

\* The deferred srv.Close(), first half: s.Listener.Close().
CloseListener ==
    /\ opc = "closing"
    /\ srv' = [srv EXCEPT !.listener = "closed"]
    /\ opc' = "closeWait"
    /\ UNCHANGED <<o, ret, authURL, browser, handlers, cmd>>

\* The deferred srv.Close(), second half: s.wg.Wait() blocks until every
\* outstanding request has completed; then DoLoopbackAuthorization returns.
CloseReturn ==
    /\ opc = "closeWait"
    /\ \A h \in Live : h.pc = "done"
    /\ opc' = "returned"
    /\ UNCHANGED <<o, srv, ret, authURL, browser, handlers, cmd>>

(***************************************************************************)
(* The callback server.                                                    *)
(***************************************************************************)
\* What a request can carry: the session's state is 32 random characters that
\* newOauth makes and only the authorization URL gives out, so no request has
\* it before Auth has built the URL.
CanCarry(r) == r.state = o.state => authURL # NoURL

\* The server accepts a connection and runs ServeHTTP in a new goroutine.
Serve ==
    /\ srv.listener = "open"
    /\ BagCardinality(handlers) < MaxRequests
    /\ \E r \in Requests(o.implicit) :
          /\ CanCarry(r)
          /\ handlers' = handlers (+) SetToBag({ServeHTTP(r)})
    /\ UNCHANGED <<o, srv, opc, ret, authURL, browser, cmd>>

\* The POST of Exchange comes back.
ExchangeReturn ==
    /\ \E h \in Live, out \in ExchangeOutcomes :
          /\ h.pc = "exchange"
          /\ handlers' = Replace(handlers, h, AfterExchange(h, out))
    /\ UNCHANGED <<o, srv, opc, ret, authURL, browser, cmd>>

DoLoopbackStep ==
    NewServer \/ Authorize \/ RecvTok \/ RecvErr \/ Timeout \/ CloseListener \/ CloseReturn

HandlerStep == ExchangeReturn

Next == DoLoopbackStep \/ Serve \/ HandlerStep

Spec == Init /\ [][Next]_vars

FairSpec == Spec /\ WF_vars(DoLoopbackStep) /\ WF_vars(HandlerStep)

(***************************************************************************)
(* The implicit flow with one callback whose fragment parameters all vary. *)
(***************************************************************************)
InitFragment ==
    /\ \E t \in {"", "https://app.example/done"},
          a \in {"https://idp.example/authorize"} \cup BadURLs, l \in ListenOptions :
          o = newOauth(TRUE, t, a, l)
    /\ srv = [listener |-> "none", URL |-> ""]
    /\ opc = "start"
    /\ ret = NoRet
    /\ authURL = NoURL
    /\ browser = "not called"
    /\ handlers = EmptyBag
    /\ cmd = NoCmd

ServeFragment ==
    /\ srv.listener = "open"
    /\ handlers = EmptyBag
    /\ \E r \in FragmentRequests :
          CanCarry(r) /\ handlers' = SetToBag({ServeHTTP(r)})
    /\ UNCHANGED <<o, srv, opc, ret, authURL, browser, cmd>>

NextFragment == DoLoopbackStep \/ ServeFragment

SpecFragment == InitFragment /\ [][NextFragment]_vars

(***************************************************************************)
(* oauthCmd.  Errors are strings, "" for nil.                              *)
(***************************************************************************)
\* github.com/pkg/errors Wrapf: nil when the error wrapped is nil.
Wrapf(err, msg) == IF err = "" THEN "" ELSE msg \o ": " \o err

\* url.Parse on the --listen-url values of this model.
UrlParse(u) ==
    CASE u = "http://localhost:10000/cb" -> [err |-> "", Scheme |-> "http", Path |-> "/cb"]
      [] u = "http://localhost:10000"    -> [err |-> "", Scheme |-> "http", Path |-> ""]
      [] u = "//localhost:10000/cb"      -> [err |-> "", Scheme |-> "", Path |-> "/cb"]
      [] OTHER -> [err |-> "parse " \o u, Scheme |-> "", Path |-> ""]

\* net.SplitHostPort on the --listen values of this model.
SplitHostPort(a) ==
    CASE a = ":10000"          -> [err |-> "", host |-> "", port |-> "10000"]
      [] a = "localhost:10000" -> [err |-> "", host |-> "localhost", port |-> "10000"]
      [] OTHER -> [err |-> "missing port in address", host |-> "", port |-> ""]

\* strings.HasPrefix(provider, "https://") on the providers of this model.
HasHttpsPrefix(p) == p \in {"https://idp.example"}

\* The flags oauthCmd reads before it selects a strategy.
CmdInputs ==
    [ provider : {"google", "https://idp.example", "idp.example"},
      console : BOOLEAN, implicit : BOOLEAN, insecure : BOOLEAN,
      clientIDSet : BOOLEAN, authzSet : BOOLEAN, tokenSet : BOOLEAN,
      account : {"", "unreadable", "notjson", "installed", "service_account", "other"},
      jwt : BOOLEAN,
      listen : {"", ":10000", "localhost"},
      listenURL : {"", "http://localhost:10000/cb", "//localhost:10000/cb", "http://[::1"} ]

\* options.Validate: the error, and the callback path it leaves in the options.
Validate(in) ==
    IF in.provider # "google" /\ ~HasHttpsPrefix(in.provider)
    THEN [err |-> "use a valid provider: google", CallbackPath |-> "/"]
    ELSE IF in.listen # "" /\ SplitHostPort(in.listen).err # ""
    THEN [err |-> Wrapf(SplitHostPort(in.listen).err, "invalid value for flag '--listen'"),
          CallbackPath |-> "/"]
    ELSE IF in.listenURL # ""
    THEN LET u == UrlParse(in.listenURL) IN
         IF u.err # "" \/ u.Scheme = ""
         THEN [err |-> Wrapf(u.err, "invalid value for flag '--listen-url'"),
               CallbackPath |-> "/"]
         ELSE [err |-> "", CallbackPath |-> IF u.Path # "" THEN u.Path ELSE "/"]
    ELSE [err |-> "", CallbackPath |-> "/"]

\* What disco(provider) can give newOauth.
DiscoOutcomes ==
    { [err |-> "error retrieving metadata", authz |-> "", token |-> ""],
      [err |-> "missing 'authorization_endpoint' in provider metadata", authz |-> "", token |-> ""],
      [err |-> "missing 'token_endpoint' in provider metadata", authz |-> "", token |-> ""],
      [err |-> "", authz |-> "https://idp.example/authorize", token |-> "https://idp.example/token"] }

NoSession == [none |-> TRUE]

\* Variant: --implicit is let through without --insecure.
ImplicitError_ClientIDOnly(in) ==
    IF in.implicit /\ ~in.clientIDSet
    THEN "flag '--implicit' requires the '--client-id' flag"
    ELSE ""

\* if opts.Implicit { ... }: the error the implicit flow is refused with, nil
\* when it is not asked for or is acknowledged and has a client id.
ImplicitError(in) ==
    IF in.implicit /\ ~in.insecure
    THEN "flag '--implicit' requires the '--insecure' flag"
    ELSE IF in.implicit /\ ~in.clientIDSet
    THEN "flag '--implicit' requires the '--client-id' flag"
    ELSE ""

\* Variant: --console is looked at before the service account.
SelectStrategy_ConsoleFirst(do2lo, jwt, console) ==
    IF console THEN "manual"
    ELSE IF do2lo THEN (IF jwt THEN "jwt" ELSE "twoLegged")
    ELSE "loopback"

\* switch { case do2lo: ... case opts.Console: ... default: ... }
SelectStrategy(do2lo, jwt, console) ==
    IF do2lo THEN (IF jwt THEN "jwt" ELSE "twoLegged")
    ELSE IF console THEN "manual"
    ELSE "loopback"

\* oauthCmd from its entry to the strategy switch: the error it returns
\* early (returned = TRUE, err possibly nil), or the session and the
\* strategy selected.  d is what disco answers if it is called.
Configure(in, d) ==
    LET v == Validate(in)
        early(e) == [returned |-> TRUE, err |-> e, o |-> NoSession, strategy |-> "none",
                     disco |-> FALSE]
        provider0 == in.provider
        clientID0 == IF in.clientIDSet THEN "cli-client-id"
                     ELSE IF in.implicit THEN "" ELSE "defaultClientID"
        clientSecret0 == IF in.clientIDSet THEN "cli-client-secret"
                         ELSE IF in.implicit THEN "" ELSE "defaultClientNotSoSecret"
        provider1 == IF in.authzSet THEN "" ELSE provider0
        authzEp1 == IF in.authzSet THEN "https://cli.example/authorize" ELSE ""
        tokenEp1 == IF in.authzSet THEN "https://cli.example/token" ELSE ""
        provider2 == IF in.account # "" THEN "" ELSE provider1
        fromFile == in.account \in {"installed", "service_account"}
        authzEp2 == IF fromFile THEN "https://file.example/auth" ELSE authzEp1
        tokenEp2 == IF fromFile THEN "https://file.example/token" ELSE tokenEp1
        clientID2 == IF in.account = "installed" THEN "file-client-id"
                     ELSE IF in.account = "service_account" THEN "private_key_id"
                     ELSE clientID0
        clientSecret2 == IF in.account = "installed" THEN "file-client-secret"
                         ELSE IF in.account = "service_account" THEN "private_key"
                         ELSE clientSecret0
        do2lo == in.account = "service_account"
        needDisco == provider2 # "google" /\ authzEp2 = "" /\ tokenEp2 = ""
        session ==
            [provider |-> provider2, clientID |-> clientID2, clientSecret |-> clientSecret2,
             scope |-> "openid email", prompt |-> "", loginHint |-> "",
             redirectURI |-> "",
             tokenEndpoint |-> IF provider2 = "google"
                               THEN "https://www.googleapis.com/oauth2/v4/token"
                               ELSE IF needDisco THEN d.token ELSE tokenEp2,
             authzEndpoint |-> IF provider2 = "google"
                               THEN "https://accounts.google.com/o/oauth2/v2/auth"
                               ELSE IF needDisco THEN d.authz ELSE authzEp2,
             state |-> SessionState, codeChallenge |-> SessionVerifier,
             nonce |-> SessionNonce, implicit |-> in.implicit,
             CallbackListener |-> in.listen, CallbackListenerURL |-> in.listenURL,
             CallbackPath |-> v.CallbackPath, terminalRedirect |-> ""]
    IN
    IF v.err # "" THEN early(v.err)
    ELSE IF (in.provider # "google" \/ in.authzSet) /\ ~in.clientIDSet
    THEN early("flag '--client-id' required with '--provider'")
    ELSE IF ImplicitError(in) # ""
    THEN early(ImplicitError(in))
    ELSE IF in.authzSet /\ ~in.tokenSet
    THEN early("flag '--authorization-endpoint' requires flag '--token-endpoint'")
    ELSE IF in.account = "unreadable"
    THEN early(Wrapf("no such file", "error reading account"))
    ELSE IF in.account = "notjson"
    THEN early(Wrapf("invalid character", "error reading account: unsupported format"))
    ELSE IF in.account = "other"
    THEN early(Wrapf("", "error reading account: unsupported account type"))
    ELSE IF needDisco /\ d.err # ""
    THEN [early(d.err) EXCEPT !.disco = TRUE]
    ELSE [returned |-> FALSE, err |-> "", o |-> session,
          strategy |-> SelectStrategy(do2lo, in.jwt, in.console),
          disco |-> needDisco]

(***************************************************************************)
(* What DoLoopbackAuthorization can return, as oauthCmd sees it.  Spec     *)
(* keeps ret inside this set (LoopbackReturnsSummarised).                  *)
(***************************************************************************)
ImplicitToken(accessToken) ==
    [AccessToken |-> accessToken, IDToken |-> "", RefreshToken |-> "",
     ExpiresIn |-> Atoi(<<>>).n, TokenType |-> "", Err |-> "", ErrDesc |-> ""]

LoopbackErrors ==
    { TimeoutError,
      "error listening on :10000",
      "Failed to authenticate: access_denied",
      "Failed to authenticate: missing or invalid state",
      "Failed to authenticate: missing access token" }
    \cup { "parse " \o u : u \in BadURLs }
    \cup { "Failed exchanging authorization code: " \o e :
             e \in {"transport error", "decode error"} }
    \cup { "Failed exchanging authorization code: " \o t.Err \o ". " \o t.ErrDesc :
             t \in TokenResponses }

LoopbackResults ==
    { [tok |-> t, err |-> ""] :
        t \in { x \in TokenResponses : ~TokenHasError(x) } \cup { ImplicitToken("AT1") } }
    \cup { [tok |-> NoTok, err |-> e] : e \in LoopbackErrors }

LoopbackReturnsSummarised == ret = NoRet \/ ret \in LoopbackResults

(***************************************************************************)
(* One run of oauthCmd.                                                    *)
(*   pc       "start", "run" (strategy selected, not yet called),          *)
(*            "manualRead" (the manual flow asks for the code),             *)
(*            "finish" (the strategy returned), "returned"                  *)
(*   res      (tok, err) returned by the strategy                          *)
(*   started  the strategies called, in order                              *)
(*   log      the calls the strategy made, in order                        *)
(*   form,out the form posted by Exchange and what Exchange returned       *)
(*   stdout   what was printed on standard output                          *)
(*   retErr   the error oauthCmd returned                                  *)
(***************************************************************************)
InitCmd ==
    /\ \E in \in CmdInputs :
          cmd = [pc |-> "start", in |-> in, strategy |-> "none", disco |-> FALSE,
                 res |-> NoRet, started |-> <<>>, log |-> <<>>, form |-> NoForm,
                 out |-> NoOutcome,
                 stdout |-> <<>>, retErr |-> ""]
    /\ o = NoSession
    /\ srv = [listener |-> "none", URL |-> ""]
    /\ opc = "unused"
    /\ ret = NoRet
    /\ authURL = NoURL
    /\ browser = "not called"
    /\ handlers = EmptyBag

\* Lines 250-342: validation, configuration, newOauth.
CmdConfigure ==
    /\ cmd.pc = "start"
    /\ \E d \in DiscoOutcomes :
          LET c == Configure(cmd.in, d) IN
          IF c.returned
          THEN /\ cmd' = [cmd EXCEPT !.pc = "returned", !.retErr = c.err,
                                     !.disco = c.disco]
               /\ o' = o
          ELSE /\ cmd' = [cmd EXCEPT !.pc = "run", !.strategy = c.strategy,
                                     !.disco = c.disco]
               /\ o' = c.o
    /\ UNCHANGED <<srv, opc, ret, authURL, browser, handlers>>

\* The private key of the service account: pem.Decode, ParsePKCS8PrivateKey,
\* jose.NewSigner and CompactSerialize each may fail.
KeyErrors ==
    { "failed to read private key pem block", "error parsing private key",
      "error creating JWT signer", "error serializing JWT" }

Strategy(name, res, log) ==
    cmd' = [cmd EXCEPT !.pc = "finish", !.res = res,
                       !.started = @ \o <<name>>, !.log = log]

\* tok, err = o.DoJWTAuthorization(issuer, scope)
CmdJWT ==
    /\ cmd.pc = "run" /\ cmd.strategy = "jwt"
    /\ \/ \E e \in KeyErrors : Strategy("jwt", [tok |-> NoTok, err |-> e], <<>>)
       \/ Strategy("jwt",
                   [tok |-> [AccessToken |-> "signed.jwt", IDToken |-> "",
                             RefreshToken |-> "", ExpiresIn |-> 3600,
                             TokenType |-> "Bearer", Err |-> "", ErrDesc |-> ""],
                    err |-> ""], <<"Sign">>)
    /\ UNCHANGED <<o, srv, opc, ret, authURL, browser, handlers>>

\* tok, err = o.DoTwoLeggedAuthorization(issuer): the token decoded from the
\* token endpoint's answer is returned as it is.
CmdTwoLegged ==
    /\ cmd.pc = "run" /\ cmd.strategy = "twoLegged"
    /\ \/ \E e \in KeyErrors : Strategy("twoLegged", [tok |-> NoTok, err |-> e], <<>>)
       \/ \E e \in {"error from token endpoint", "decode error"} :
             Strategy("twoLegged", [tok |-> NoTok, err |-> e], <<"Sign", "PostForm">>)
       \/ \E t \in TokenResponses :
             Strategy("twoLegged", [tok |-> t, err |-> ""], <<"Sign", "PostForm">>)
    /\ UNCHANGED <<o, srv, opc, ret, authURL, browser, handlers>>

\* Variant: the token decoded is returned without a look at its error fields.
ManualResult_Unchecked(out) ==
    IF out.err # "" THEN [tok |-> NoTok, err |-> out.err]
    ELSE [tok |-> out.tok, err |-> ""]

\* DoManualAuthorization after Exchange: what it returns for what Exchange gave.
ManualResult(out) ==
    IF out.err # "" THEN [tok |-> NoTok, err |-> out.err]
    ELSE IF out.tok.Err # "" \/ out.tok.ErrDesc # ""
    THEN [tok |-> NoTok,
          err |-> "Error exchanging authorization code: "
                  \o out.tok.Err \o ". " \o out.tok.ErrDesc]
    ELSE [tok |-> out.tok, err |-> ""]

\* tok, err = o.DoManualAuthorization(), up to the prompt for the code: the
\* redirect URI, Auth, and the URL printed on stderr.
CmdManual ==
    /\ cmd.pc = "run" /\ cmd.strategy = "manual"
    /\ o' = [o EXCEPT !.redirectURI = oobCallbackUrn]
    /\ IF UrlParseFails(o.authzEndpoint)
       THEN /\ Strategy("manual", [tok |-> NoTok, err |-> "parse " \o o.authzEndpoint], <<>>)
            /\ authURL' = authURL
       ELSE /\ authURL' = Auth(o')
            /\ cmd' = [cmd EXCEPT !.pc = "manualRead", !.started = @ \o <<"manual">>,
                                  !.log = <<"Auth">>]
    /\ UNCHANGED <<srv, opc, ret, browser, handlers>>

\* DoManualAuthorization from utils.ReadString to its return.
CmdManualExchange ==
    /\ cmd.pc = "manualRead"
    /\ \/ cmd' = [cmd EXCEPT !.pc = "finish", !.log = @ \o <<"ReadString">>,
                              !.res = [tok |-> NoTok, err |-> "error reading"]]
       \/ \E code \in {"", "c1"}, out \in ExchangeOutcomes :
             cmd' = [cmd EXCEPT !.pc = "finish", !.log = @ \o <<"ReadString", "Exchange">>,
                                !.form = ExchangeForm(code), !.out = out,
                                !.res = ManualResult(out)]
    /\ UNCHANGED <<o, srv, opc, ret, authURL, browser, handlers>>

\* tok, err = o.DoLoopbackAuthorization()
CmdLoopback ==
    /\ cmd.pc = "run" /\ cmd.strategy = "loopback"
    /\ \E r \in LoopbackResults : Strategy("loopback", r, <<"NewServer">>)
    /\ UNCHANGED <<o, srv, opc, ret, authURL, browser, handlers>>

\* Lines 358-384: return the error, or print the token and return nil.
CmdFinish ==
    /\ cmd.pc = "finish"
    /\ IF cmd.res.err # ""
       THEN cmd' = [cmd EXCEPT !.pc = "returned", !.retErr = cmd.res.err]
       ELSE \E header \in BOOLEAN, bare \in BOOLEAN, oidc \in BOOLEAN :
               LET tok == cmd.res.tok
                   line == IF header
                           THEN "Authorization: Bearer "
                                \o (IF oidc THEN tok.IDToken ELSE tok.AccessToken)
                           ELSE IF bare
                           THEN (IF oidc THEN tok.IDToken ELSE tok.AccessToken)
                           ELSE "json"
               IN cmd' = [cmd EXCEPT !.pc = "returned", !.retErr = "",
                                     !.stdout = @ \o <<[line |-> line, tok |-> tok]>>]
    /\ UNCHANGED <<o, srv, opc, ret, authURL, browser, handlers>>

NextCmd ==
    \/ CmdConfigure \/ CmdJWT \/ CmdTwoLegged \/ CmdManual \/ CmdManualExchange
    \/ CmdLoopback \/ CmdFinish

SpecCmd == InitCmd /\ [][NextCmd]_vars

(***************************************************************************)
(* Properties of the loopback flow (Spec, FairSpec).                       *)
(***************************************************************************)
LoggedIn(h, call) == \E i \in DOMAIN h.log : h.log[i] = call

\* Number of handlers that made the call.
CountCalls(call) ==
    BagCardinality([h \in {x \in Live : LoggedIn(x, call)} |-> handlers[h]])

BlockedInSend(h) == h.pc \in {"sendTok", "sendErr"}

LeftSelect == opc \in {"closing", "closeWait", "returned"}

\* C1: in the authorization-code flow a callback on the callback path with a
\* non-empty code and a non-empty state that differs from the session's state
\* never gets an Exchange call: it is answered 400 and its only other act is
\* the send of an error on errCh.
StateMismatch(h) ==
    /\ ~o.implicit
    /\ h.req.path = o.CallbackPath
    /\ h.req.code # "" /\ h.req.state # "" /\ h.req.state # o.state

C1_StateMismatchRejected ==
    \A h \in Live :
        StateMismatch(h) =>
            /\ ~LoggedIn(h, "Exchange") /\ h.form = NoForm /\ h.out = NoOutcome
            /\ h.status = 400
            /\ h.log = <<"WriteHeader 400", "errCh <-">>
            /\ h.msg # "" /\ h.tok = NoTok
            /\ h.pc \in {"sendErr", "done"}
            /\ (h.pc = "done" => h.received /\ ret.tok = NoTok /\ ret.err = h.msg)

C1_Witness ==
    \E h \in Live :
        StateMismatch(h) /\ h.req.error = "" /\ h.req.code = "c1" /\ h.req.state = "X"
        /\ h.pc = "sendErr"

\* C2: in the authorization-code flow a callback on the callback path without
\* error parameter and with code or state empty is answered 400 and sends on
\* neither channel; such requests never end the flow: if they are all the
\* server got, the select ends by the timeout only.
Malformed(h) ==
    /\ ~o.implicit
    /\ h.req.path = o.CallbackPath
    /\ h.req.error = ""
    /\ (h.req.code = "" \/ h.req.state = "")

C2_MalformedKeepsWaiting ==
    /\ \A h \in Live :
          Malformed(h) =>
              /\ h.pc = "done" /\ h.status = 400 /\ h.log = <<"WriteHeader 400">>
              /\ ~h.received /\ h.tok = NoTok /\ h.msg = ""
    /\ ( /\ handlers # EmptyBag
         /\ \A h \in Live : Malformed(h)
         /\ authURL # NoURL )
       => \/ opc = "select" /\ ret = NoRet
          \/ LeftSelect /\ ret = [tok |-> NoTok, err |-> TimeoutError]

C2_Witness ==
    /\ opc = "select" /\ ret = NoRet
    /\ \E h \in Live : Malformed(h) /\ h.req.code = "c1" /\ h.req.state = "" /\ h.pc = "done"
    /\ \E h \in Live : Malformed(h) /\ h.req.code = "" /\ h.req.state = SessionState

\* C4: once the timeout has fired DoLoopbackAuthorization returns the timeout
\* error with the listener closed, whatever the handlers are doing: after the
\* timeout it has returned, listener closed, or a goroutine can still take a
\* step towards that return.
C4_TimeoutReturns ==
    (LeftSelect /\ ret.err = TimeoutError) =>
        IF opc = "returned"
        THEN srv.listener = "closed"
        ELSE ENABLED (DoLoopbackStep \/ HandlerStep)

\* C5: a handler that reaches a channel send does not block forever: when
\* handlers are blocked in a send, eventually none is.
C5_SendersComplete ==
    (\E h \in Live : BlockedInSend(h)) ~> (\A h \in Live : ~BlockedInSend(h))

\* C6: within one flow no second send is started on a channel: at most one
\* handler ever sends on tokCh and at most one on errCh.
C6_ChannelsWrittenOnce ==
    CountCalls("tokCh <-") <= 1 /\ CountCalls("errCh <-") <= 1

\* C7: when NewServer succeeded the listener is closed by the time
\* DoLoopbackAuthorization returns, whichever the exit path; the only return
\* with no closed listener is that of NewServer's own error, which has none.
C7_ListenerClosedOnReturn ==
    opc = "returned" =>
        \/ srv.listener = "closed"
        \/ /\ srv.listener = "none" /\ authURL = NoURL /\ handlers = EmptyBag
           /\ ret = [tok |-> NoTok, err |-> "error listening on " \o o.CallbackListener]

C7_Witness ==
    /\ opc = "returned" /\ srv.listener = "closed"
    /\ authURL = NoURL /\ ret.err # "" /\ handlers # EmptyBag

\* C8: a callback on the callback path with a non-empty error parameter is
\* answered 400 and sends that error on errCh, whatever else it carries and
\* in both modes: no Exchange call, nothing sent on tokCh; when the select
\* takes its error, DoLoopbackAuthorization's result is that error and no token.
ProviderError(h) == h.req.path = o.CallbackPath /\ h.req.error # ""

C8_ErrorParameterFirst ==
    \A h \in Live :
        ProviderError(h) =>
            /\ h.status = 400
            /\ h.log = <<"WriteHeader 400", "errCh <-">>
            /\ h.msg = "Failed to authenticate: " \o h.req.error
            /\ h.form = NoForm /\ h.out = NoOutcome /\ h.tok = NoTok
            /\ h.pc \in {"sendErr", "done"}
            /\ (h.pc = "sendErr" /\ opc = "select" => ENABLED RecvErr)
            /\ (h.pc = "done" =>
                   h.received /\ LeftSelect /\ ret = [tok |-> NoTok, err |-> h.msg])

C8_Witness ==
    \E h \in Live :
        /\ ProviderError(h) /\ h.pc = "done" /\ opc = "returned"
        /\ \/ h.req.code = "c1" /\ h.req.state = o.state
           \/ o.implicit /\ h.req.urlhash = "true" /\ h.req.state = o.state
              /\ h.req.access_token # ""

\* C9: in the authorization-code flow a callback with the session's state and
\* a non-empty code calls Exchange once; on a Token free of error fields the
\* browser response (302 with a terminal redirect URL, else 200) is written,
\* then exactly that Token is sent on tokCh and is what the flow returns; on
\* an Exchange error or a Token with error fields the failure page is written,
\* an error is sent on errCh and nothing on tokCh.
ValidCallback(h) ==
    /\ ~o.implicit
    /\ h.req.path = o.CallbackPath
    /\ h.req.error = ""
    /\ h.req.code # "" /\ h.req.state = o.state

C9_ExchangeResultDelivered ==
    \A h \in Live :
        ValidCallback(h) =>
            /\ h.form # NoForm /\ h.form.code = h.req.code
            /\ h.pc = "exchange" <=> h.out = NoOutcome
            /\ h.pc = "exchange" => h.log = <<"Exchange">> /\ h.status = 0
            /\ h.pc # "exchange" =>
                 IF h.out.err = "" /\ h.out.tok.Err = "" /\ h.out.tok.ErrDesc = ""
                 THEN /\ h.status = IF o.terminalRedirect # "" THEN 302 ELSE 200
                      /\ h.log = <<"Exchange",
                                   IF o.terminalRedirect # "" THEN "WriteHeader 302"
                                                              ELSE "WriteHeader 200",
                                   "tokCh <-">>
                      /\ h.tok = h.out.tok /\ h.msg = ""
                      /\ h.pc \in {"sendTok", "done"}
                      /\ (h.pc = "done" =>
                             h.received /\ ret = [tok |-> h.out.tok, err |-> ""])
                 ELSE /\ h.status = 400
                      /\ h.log = <<"Exchange", "WriteHeader 400", "errCh <-">>
                      /\ h.tok = NoTok /\ h.msg # ""
                      /\ h.pc \in {"sendErr", "done"}
                      /\ (h.pc = "done" =>
                             h.received /\ ret = [tok |-> NoTok, err |-> h.msg])

C9_Witness ==
    /\ opc = "returned" /\ o.terminalRedirect # ""
    /\ \E h \in Live :
          /\ ValidCallback(h) /\ h.received /\ h.status = 302
          /\ ret.tok = h.out.tok /\ ret.tok.AccessToken = "AT1"

\* C10: over all the callbacks of one flow at most one is processed to an
\* Exchange call: a second callback with the same valid state triggers none.
C10_OneExchangePerFlow == CountCalls("Exchange") <= 1

\* C17: the code_challenge of the authorization URL is the unpadded
\* base64url encoding of the SHA-256 of the very value every Exchange of the
\* flow sends as code_verifier, and its method is S256.
C17_ChallengeOfVerifier ==
    \A h \in Live :
        (h.form # NoForm /\ authURL # NoURL) =>
            /\ authURL.code_challenge_method = "S256"
            /\ authURL.code_challenge = Base64RawURL(Sha256(h.form.code_verifier))

C17_Witness ==
    /\ authURL # NoURL /\ opc = "select"
    /\ \E h \in Live : h.form # NoForm /\ h.form.code_verifier = SessionVerifier

\* C18: a callback request sends at most once on the channels, on tokCh or on
\* errCh, and the send is the last thing it does: no response write, no
\* Exchange and no send comes after it.
C18_SendIsLast ==
    \A h \in Live :
        \A i \in DOMAIN h.log :
            h.log[i] \in {"tokCh <-", "errCh <-"} => i = Len(h.log)

C18_Witness ==
    /\ \E h \in Live : h.received /\ h.log = <<"Exchange", "WriteHeader 302", "tokCh <-">>
    /\ \E h \in Live : h.pc = "sendErr" /\ h.log = <<"Exchange", "WriteHeader 400", "errCh <-">>

\* C19: a request on a path other than the callback path is answered 404 and
\* does nothing else, whatever its query: no Exchange, no send, nothing for
\* the select to receive.
C19_WrongPathNotFound ==
    \A h \in Live :
        h.req.path # o.CallbackPath =>
            /\ h.status = 404 /\ h.log = <<"WriteHeader 404">> /\ h.pc = "done"
            /\ h.form = NoForm /\ h.out = NoOutcome
            /\ h.tok = NoTok /\ h.msg = "" /\ ~h.received

C19_Witness ==
    /\ opc = "select"
    /\ \E h \in Live :
          /\ h.req.path # o.CallbackPath /\ h.status = 404
          /\ h.req.code = "c1" /\ h.req.state = o.state

\* C22: in the loopback flow the server is listening and the redirect URI is
\* set before the authorization URL is built and the browser opened; the
\* redirect_uri of the URL is --listen-url when given and the server's URL
\* otherwise; when the browser cannot be opened the flow still goes to the
\* select, and what it returns is what the select received or the timeout.
C22_ServerThenURLThenBrowser ==
    LET redirect == IF o.CallbackListenerURL # "" THEN o.CallbackListenerURL ELSE srv.URL IN
    /\ authURL # NoURL =>
          /\ srv.listener # "none"
          /\ o.redirectURI = redirect /\ authURL.redirect_uri = redirect
    /\ browser # "not called" => authURL # NoURL
    /\ browser = "failed" =>
          /\ opc \in {"select", "closing", "closeWait", "returned"}
          /\ LeftSelect => (ret.err = TimeoutError \/ \E h \in Live : h.received)

C22_Witness ==
    /\ browser = "failed" /\ opc = "returned"
    /\ ret.tok # NoTok /\ ret.tok.AccessToken = "AT1"
    /\ o.CallbackListenerURL # "" /\ authURL.redirect_uri = o.CallbackListenerURL

C24_AlwaysReturns == <>(opc = "returned")

\* C25: the redirect_uri of every Exchange call of a loopback flow is the
\* redirect_uri of the authorization URL built for that flow.
C25_SameRedirectURI ==
    \A h \in Live :
        h.form # NoForm =>
            authURL # NoURL /\ h.form.redirect_uri = authURL.redirect_uri

C25_Witness ==
    /\ authURL # NoURL /\ o.CallbackListenerURL # ""
    /\ \E h \in Live :
          h.form # NoForm /\ h.form.redirect_uri = o.CallbackListenerURL

(***************************************************************************)
(* Properties of the implicit callback (SpecFragment).                     *)
(***************************************************************************)
\* A request that reaches the urlhash branch of implicitHandler.
Fragment(h) ==
    /\ o.implicit /\ h.req.path = o.CallbackPath /\ h.req.error = ""
    /\ h.req.urlhash = "true"

\* C11: in the implicit flow a callback with urlhash=true sends a Token on
\* tokCh only if its state is non-empty and equal to the session's and its
\* access_token is non-empty; otherwise it is answered 400 and sends an error
\* on errCh and no token.  The Token sent has the query's access_token,
\* id_token, refresh_token and token_type, and expires_in as an integer, 0
\* when expires_in does not parse.
C11_FragmentToken ==
    \A h \in Live :
        Fragment(h) =>
            LET q == h.req IN
            IF q.state # "" /\ q.state = o.state /\ q.access_token # ""
            THEN /\ LoggedIn(h, "tokCh <-") /\ ~LoggedIn(h, "errCh <-")
                 /\ h.tok.AccessToken = q.access_token
                 /\ h.tok.IDToken = q.id_token
                 /\ h.tok.RefreshToken = q.refresh_token
                 /\ h.tok.TokenType = q.token_type
                 /\ h.tok.ExpiresIn =
                        IF Atoi(q.expires_in).err = "" THEN Atoi(q.expires_in).n ELSE 0
            ELSE /\ h.status = 400
                 /\ LoggedIn(h, "errCh <-") /\ ~LoggedIn(h, "tokCh <-")
                 /\ h.tok = NoTok

\* C20: in the implicit flow a callback on the callback path with no error
\* and without urlhash=true is answered 200 with the relay script and sends
\* on neither channel; a token or a state or access-token error can only
\* come from a request with urlhash=true.
C20_RelayKeepsWaiting ==
    \A h \in Live :
        (o.implicit /\ h.req.path = o.CallbackPath /\ h.req.error = ""
           /\ h.req.urlhash # "true") =>
            /\ h.status = 200 /\ h.log = <<"WriteHeader 200">> /\ h.pc = "done"
            /\ h.tok = NoTok /\ h.msg = "" /\ ~h.received

C20_Witness ==
    /\ opc = "select"
    /\ \E h \in Live :
          /\ h.req.path = o.CallbackPath /\ h.req.error = ""
          /\ h.req.urlhash = "false" /\ h.req.state = o.state
          /\ h.req.access_token = "AT1" /\ h.status = 200

(***************************************************************************)
(* Properties of oauthCmd (SpecCmd).                                       *)
(***************************************************************************)
\* C3: whichever the strategy, oauthCmd never returns nil with a printed
\* Token whose Err or ErrDesc is non-empty.
C3_ErrorTokenNeverSuccess ==
    (cmd.pc = "returned" /\ cmd.retErr = "") =>
        \A i \in DOMAIN cmd.stdout :
            cmd.stdout[i].tok.Err = "" /\ cmd.stdout[i].tok.ErrDesc = ""

\* C12: one run of oauthCmd calls at most one strategy, once, and which one
\* follows from the flags alone: with a service-account file the self-signed
\* JWT when --jwt is set and the two-legged flow otherwise (--console or not),
\* without one the manual flow when --console is set and the loopback flow
\* otherwise.  Nothing is called after the strategy has returned.
C12_OneStrategyOnce ==
    /\ Len(cmd.started) <= 1
    /\ cmd.pc = "finish" => Len(cmd.started) = 1
    /\ cmd.started # <<>> =>
          cmd.started[1] =
             IF cmd.in.account = "service_account"
             THEN (IF cmd.in.jwt THEN "jwt" ELSE "twoLegged")
             ELSE IF cmd.in.console THEN "manual" ELSE "loopback"

C12_Witness ==
    /\ cmd.pc = "returned" /\ cmd.started = <<"twoLegged">>
    /\ cmd.in.console /\ cmd.in.account = "service_account"

\* C13: when --authorization-endpoint and --token-endpoint are given, the
\* session is built with exactly these endpoints and discovery is not called,
\* whatever the provider and the account file.
C13_ExplicitEndpointsUsed ==
    (cmd.in.authzSet /\ cmd.in.tokenSet /\ cmd.pc # "start") =>
        /\ ~cmd.disco
        /\ o # NoSession =>
              /\ o.authzEndpoint = "https://cli.example/authorize"
              /\ o.tokenEndpoint = "https://cli.example/token"

\* C14: an account file that is JSON but neither an installed-client file nor
\* a service-account file makes oauthCmd return a non-nil error, with no
\* strategy called and nothing printed.
C14_UnsupportedAccountFails ==
    (cmd.in.account = "other" /\ cmd.pc = "returned") =>
        cmd.retErr # "" /\ cmd.started = <<>> /\ cmd.stdout = <<>>

\* C15: with --implicit and without --insecure, or without --client-id,
\* oauthCmd returns an error before a session is built, discovery fetched,
\* an authorization URL built or a strategy called.
C15_ImplicitNeedsInsecure ==
    (cmd.in.implicit /\ (~cmd.in.insecure \/ ~cmd.in.clientIDSet) /\ cmd.pc # "start") =>
        /\ cmd.pc = "returned" /\ cmd.retErr # ""
        /\ o = NoSession /\ ~cmd.disco /\ authURL = NoURL
        /\ cmd.started = <<>> /\ cmd.log = <<>> /\ cmd.stdout = <<>>

C15_Witness ==
    /\ cmd.pc = "returned" /\ cmd.in.implicit /\ ~cmd.in.insecure /\ cmd.in.clientIDSet
    /\ cmd.retErr = "flag '--implicit' requires the '--insecure' flag"

\* C16: every failure of a run (a configuration error, an error returned by
\* the strategy, a token carrying the provider's error) makes oauthCmd
\* return a non-nil error with nothing printed.
C16_FailuresReturned ==
    (/\ cmd.pc = "returned"
     /\ \/ cmd.started = <<>>
        \/ cmd.res.err # ""
        \/ /\ cmd.res.tok # NoTok
           /\ (cmd.res.tok.Err # "" \/ cmd.res.tok.ErrDesc # ""))
    => cmd.retErr # "" /\ cmd.stdout = <<>>

\* C21: the manual flow starts no server and sends on no channel; it sets
\* the redirect URI to the out-of-band URN, builds the authorization URL,
\* reads one code and then calls Exchange once; it returns the Token only
\* when Exchange gave no error and the Token has empty error and
\* error_description, and an error otherwise.
C21_ManualFlow ==
    (cmd.strategy = "manual" /\ cmd.started # <<>>) =>
        /\ srv.listener = "none" /\ handlers = EmptyBag
        /\ o.redirectURI = oobCallbackUrn
        /\ authURL # NoURL => authURL.redirect_uri = oobCallbackUrn
        /\ cmd.log \in { <<>>, <<"Auth">>, <<"Auth", "ReadString">>,
                         <<"Auth", "ReadString", "Exchange">> }
        /\ (cmd.form # NoForm) = (cmd.log = <<"Auth", "ReadString", "Exchange">>)
        /\ cmd.form # NoForm => cmd.form.redirect_uri = oobCallbackUrn
        /\ cmd.pc \in {"finish", "returned"} =>
              IF /\ cmd.log = <<"Auth", "ReadString", "Exchange">>
                 /\ cmd.out.err = ""
                 /\ cmd.out.tok.Err = "" /\ cmd.out.tok.ErrDesc = ""
              THEN cmd.res = [tok |-> cmd.out.tok, err |-> ""]
              ELSE cmd.res.tok = NoTok /\ cmd.res.err # ""

C21_Witness ==
    /\ cmd.strategy = "manual" /\ cmd.pc = "returned"
    /\ cmd.log = <<"Auth", "ReadString", "Exchange">>
    /\ cmd.res.tok # NoTok /\ cmd.res.tok.AccessToken = "AT1" /\ cmd.retErr = ""

\* C26: when --listen-url is given and does not parse, or parses with an
\* empty scheme, options.Validate returns a non-nil error and oauthCmd calls
\* no strategy; the callback path is the listen-url's path only when the URL
\* passed and its path is not empty.
C26_ListenURLValidated ==
    LET in == cmd.in
        u == UrlParse(in.listenURL)
        reached == /\ in.provider = "google" \/ HasHttpsPrefix(in.provider)
                   /\ in.listen = "" \/ SplitHostPort(in.listen).err = ""
                   /\ in.listenURL # ""
    IN
    /\ (reached /\ (u.err # "" \/ u.Scheme = "") /\ cmd.pc # "start") =>
          /\ Validate(in).err # ""
          /\ cmd.pc = "returned" /\ cmd.retErr # "" /\ cmd.started = <<>>
    /\ o # NoSession =>
          o.CallbackPath = IF reached /\ u.err = "" /\ u.Scheme # "" /\ u.Path # ""
                           THEN u.Path ELSE "/"

====
